---- MODULE Spec2Model ----
(***************************************************************************)
(* Model of kioto's runtime module (src/src/runtime.rs; context.rs is the  *)
(* same code with Runtime renamed Context): the Builder, Runtime::run_with *)
(* with its per-tick callback, Runtime::shutdown, Drop for Runtime, and    *)
(* the raylib video subsystem reached through the bindings of sys.rs.      *)
(*                                                                         *)
(* The operations other than run_with are called either by the owner of    *)
(* the objects while no run_with is in progress, or by the callback of the *)
(* run_with in progress (on the Runtime it was handed, or on objects it    *)
(* has captured).                                                          *)
(***************************************************************************)
EXTENDS Integers, Sequences, FiniteSets, TLC

\* ------------------------------------------------------------------ bounds
MaxRuntimes == 2      \* Runtime objects that may exist at the same time
MaxTicks    == 3      \* callback invocations explored in one run_with
MaxTitleLen == 1      \* bytes in a Builder title
MaxNest     == 1      \* run_with calls nested inside a callback

RuntimeIds == 1..MaxRuntimes
Bytes      == {0, 65}
Titles     == UNION {[1..n -> Bytes] : n \in 0..MaxTitleLen}
Errors     == {"E1", "E2"}            \* opaque io::Error values of a callback
Results    == {"Ok"} \cup Errors      \* Result<(), io::Error>

\* ------------------------------------------------------------------- state
VARIABLES
    alive,          \* alive[r]: slot r holds a Runtime (constructed, not dropped)
    running,        \* running[r]: the field Runtime.running
    video,          \* video[r]: r came out of a build() with enable_video set
    title,          \* Builder.title
    enable_video,   \* Builder.enable_video
    ready,          \* subsystem: what IsWindowReady reports
    depth,          \* subsystem: frames opened by BeginDrawing and not ended
    pc,             \* position of the single thread of control
    cur,            \* the Runtime whose run_with is in progress / just returned
    result,         \* run_with's local `result`
    sd,             \* the callback invocation in progress has called shutdown()
                    \* on the Runtime it was handed
    replaced,       \* a callback of the run_with in progress has overwritten
                    \* the Runtime it was handed with a new one
    ret,            \* value returned by the run_with that just returned
    built,          \* outcome of build(), when the latest step was a build()
    calls,          \* init_video / is_video_ready / close_video calls made by
                    \* the latest step, in order
    log,            \* course of the current (or just finished) run_with:
                    \* callback invocations and frame hooks, in order
    entry,          \* value running had when the run_with in progress was
                    \* entered, kept until its first callback invocation returns
    stack           \* suspended run_with activations, when a callback has
                    \* called run_with itself (innermost last)

vars == <<alive, running, video, title, enable_video, ready, depth,
          pc, cur, result, sd, replaced, ret, built, calls, log, entry, stack>>

\* one entry of log or calls
Ev(e, s, r, a) == [ev |-> e, sd |-> s, res |-> r, arg |-> a]
SysCall(e)     == Ev(e, FALSE, "none", <<>>)

NoBuild == [res |-> "none", rt |-> 0]

\* ------------------------------------------------------- pure definitions
\* ffi::CString::new: fails on an interior nul byte, else appends the terminator
CStringNeverFails(t) == [ok |-> TRUE, bytes |-> Append(t, 0)]
CStringNew(t) ==
    IF \E i \in 1..Len(t) : t[i] = 0
    THEN [ok |-> FALSE, bytes |-> <<>>]
    ELSE [ok |-> TRUE, bytes |-> Append(t, 0)]

\* the while condition of run_with
LoopCondIgnoresRunning(run, res) == res = "Ok"
LoopCondIgnoresResult(run, res)  == run
LoopCond(run, res) == run /\ res = "Ok"

\* the callback invocations recorded in a log
CbCalls(l) == SelectSeq(l, LAMBDA e : e.ev = "cb")
Count(l, name) == Len(SelectSeq(l, LAMBDA e : e.ev = name))

\* control is with the owner of the objects, no run_with in progress
TopLevel == pc \in {"idle", "done"}
\* control is inside a callback invocation
InCallback == pc \in {"cb_first", "cb_loop"}

FreeIds == {r \in RuntimeIds : ~alive[r]}
NewId   == CHOOSE r \in FreeIds : \A q \in FreeIds : r <= q

\* what an operation called by the owner leaves of the previous run_with
ResetRun == /\ cur' = 0
            /\ result' = "none"
            /\ sd' = FALSE
            /\ replaced' = FALSE
            /\ ret' = "none"
            /\ entry' = FALSE
            /\ stack' = <<>>

\* an operation other than run_with returns to its caller: the owner, or
\* the callback invocation in progress, whose run_with stays where it is
Returns ==
    IF TopLevel
    THEN /\ pc' = "idle" /\ log' = <<>> /\ ResetRun
    ELSE /\ InCallback
         /\ UNCHANGED <<pc, log, cur, result, sd, replaced, ret, entry, stack>>

\* -------------------------------------------------------------------- Init
Init ==
    /\ alive = [r \in RuntimeIds |-> FALSE]
    /\ running = [r \in RuntimeIds |-> FALSE]
    /\ video = [r \in RuntimeIds |-> FALSE]
    /\ title = <<>>
    /\ enable_video = FALSE
    /\ ready = FALSE
    /\ depth = 0
    /\ pc = "idle"
    /\ cur = 0
    /\ result = "none"
    /\ sd = FALSE
    /\ replaced = FALSE
    /\ ret = "none"
    /\ built = NoBuild
    /\ calls = <<>>
    /\ log = <<>>
    /\ entry = FALSE
    /\ stack = <<>>

\* ----------------------------------------------------------------- Builder
BuilderNew ==
    /\ title' = <<>>
    /\ enable_video' = FALSE
    /\ built' = NoBuild /\ calls' = <<>> /\ Returns
    /\ UNCHANGED <<alive, running, video, ready, depth>>

BuilderTitle(t) ==
    /\ title' = t
    /\ built' = NoBuild /\ calls' = <<>> /\ Returns
    /\ UNCHANGED <<alive, running, video, enable_video, ready, depth>>

BuilderEnableVideo ==
    /\ enable_video' = TRUE
    /\ built' = NoBuild /\ calls' = <<>> /\ Returns
    /\ UNCHANGED <<alive, running, video, title, ready, depth>>

\* Ok(Runtime { running: false })
Construct(r, v) ==
    /\ alive' = [alive EXCEPT ![r] = TRUE]
    /\ running' = [running EXCEPT ![r] = FALSE]
    /\ video' = [video EXCEPT ![r] = v]
    /\ built' = [res |-> "Ok", rt |-> r]

BuildFails(kind) ==
    /\ built' = [res |-> kind, rt |-> 0]
    /\ UNCHANGED <<alive, running, video>>

\* the enable_video branch of build(); initOk is what InitWindow achieves
BuildVideoIgnoresReady(initOk) ==
    LET c == CStringNew(title) IN
    IF ~c.ok
    THEN /\ BuildFails("InvalidInput")
         /\ calls' = <<>>
         /\ UNCHANGED ready
    ELSE /\ ready' = initOk
         /\ calls' = <<Ev("init", FALSE, "none", c.bytes), SysCall("is_ready")>>
         /\ FreeIds # {} /\ Construct(NewId, TRUE)
BuildVideo(initOk) ==
    LET c == CStringNew(title) IN
    IF ~c.ok
    THEN /\ BuildFails("InvalidInput")
         /\ calls' = <<>>
         /\ UNCHANGED ready
    ELSE /\ ready' = initOk
         /\ calls' = <<Ev("init", FALSE, "none", c.bytes), SysCall("is_ready")>>
         /\ IF ~ready'
            THEN BuildFails("Other")
            ELSE FreeIds # {} /\ Construct(NewId, TRUE)

BuildAlwaysVideo ==
    /\ \E initOk \in BOOLEAN : BuildVideo(initOk)
    /\ Returns
    /\ UNCHANGED <<title, enable_video, depth>>
Build ==
    /\ IF enable_video
       THEN \E initOk \in BOOLEAN : BuildVideo(initOk)
       ELSE /\ FreeIds # {}
            /\ Construct(NewId, FALSE)
            /\ calls' = <<>>
            /\ UNCHANGED ready
    /\ Returns
    /\ UNCHANGED <<title, enable_video, depth>>

\* ----------------------------------------------------------------- Runtime
RuntimeNew ==
    /\ FreeIds # {}
    /\ alive' = [alive EXCEPT ![NewId] = TRUE]
    /\ running' = [running EXCEPT ![NewId] = FALSE]
    /\ video' = [video EXCEPT ![NewId] = FALSE]
    /\ built' = NoBuild /\ calls' = <<>> /\ Returns
    /\ UNCHANGED <<title, enable_video, ready, depth>>

\* run_with up to the first callback invocation
RunWithEnterKeepsRunning(r) ==
    /\ TopLevel
    /\ alive[r]
    /\ UNCHANGED running
    /\ pc' = "cb_first"
    /\ cur' = r
    /\ result' = "none"
    /\ sd' = FALSE
    /\ replaced' = FALSE
    /\ ret' = "none"
    /\ built' = NoBuild
    /\ calls' = <<>>
    /\ log' = <<>>
    /\ entry' = running[r]
    /\ UNCHANGED stack
    /\ UNCHANGED <<alive, video, title, enable_video, ready, depth>>
RunWithEnter(r) ==
    /\ TopLevel
    /\ alive[r]
    /\ running' = [running EXCEPT ![r] = TRUE]
    /\ pc' = "cb_first"
    /\ cur' = r
    /\ result' = "none"
    /\ sd' = FALSE
    /\ replaced' = FALSE
    /\ ret' = "none"
    /\ built' = NoBuild
    /\ calls' = <<>>
    /\ log' = <<>>
    /\ entry' = running[r]
    /\ UNCHANGED stack
    /\ UNCHANGED <<alive, video, title, enable_video, ready, depth>>

\* shutdown(), by the callback on the Runtime it was handed or on one it has
\* captured, or by the owner
ShutdownKeepsRunning(r) ==
    /\ alive[r]
    /\ UNCHANGED running
    /\ IF InCallback /\ r = cur
       THEN /\ sd' = TRUE
            /\ UNCHANGED <<pc, log, cur, result, replaced, ret, entry, stack>>
       ELSE Returns
    /\ built' = NoBuild /\ calls' = <<>>
    /\ UNCHANGED <<alive, video, title, enable_video, ready, depth>>
Shutdown(r) ==
    /\ alive[r]
    /\ running' = [running EXCEPT ![r] = FALSE]
    /\ IF InCallback /\ r = cur
       THEN /\ sd' = TRUE
            /\ UNCHANGED <<pc, log, cur, result, replaced, ret, entry, stack>>
       ELSE Returns
    /\ built' = NoBuild /\ calls' = <<>>
    /\ UNCHANGED <<alive, video, title, enable_video, ready, depth>>

\* the callback returns res to run_with
CallbackReturnBreaksEarly(res) ==
    /\ InCallback
    /\ result' = res
    /\ log' = Append(log, Ev("cb", sd, res, <<>>))
    /\ pc' = IF pc = "cb_first" \/ ~running[cur] THEN "cond" ELSE "end"
    /\ entry' = FALSE
    /\ built' = NoBuild /\ calls' = <<>>
    /\ UNCHANGED <<alive, running, video, title, enable_video, ready, depth,
                   cur, sd, replaced, ret, stack>>
CallbackReturn(res) ==
    /\ InCallback
    /\ result' = res
    /\ log' = Append(log, Ev("cb", sd, res, <<>>))
    /\ pc' = IF pc = "cb_first" THEN "cond" ELSE "end"
    /\ entry' = FALSE
    /\ built' = NoBuild /\ calls' = <<>>
    /\ UNCHANGED <<alive, running, video, title, enable_video, ready, depth,
                   cur, sd, replaced, ret, stack>>

\* sys::end_frame() after the callback of a loop iteration
EndFrame ==
    /\ pc = "end"
    /\ depth' = depth - 1
    /\ log' = Append(log, SysCall("end"))
    /\ pc' = "cond"
    /\ built' = NoBuild /\ calls' = <<>>
    /\ UNCHANGED <<alive, running, video, title, enable_video, ready,
                   cur, result, sd, replaced, ret, entry, stack>>

\* the while condition holds: sys::begin_frame() and the next invocation
LoopIterateNoBegin ==
    /\ pc = "cond"
    /\ LoopCond(running[cur], result)
    /\ Len(CbCalls(log)) < MaxTicks
    /\ pc' = "cb_loop"
    /\ sd' = FALSE
    /\ built' = NoBuild /\ calls' = <<>>
    /\ UNCHANGED <<alive, running, video, title, enable_video, ready, depth,
                   cur, result, replaced, ret, log, entry, stack>>
LoopIterate ==
    /\ pc = "cond"
    /\ LoopCond(running[cur], result)
    /\ Len(CbCalls(log)) < MaxTicks
    /\ depth' = depth + 1
    /\ log' = Append(log, SysCall("begin"))
    /\ pc' = "cb_loop"
    /\ sd' = FALSE
    /\ built' = NoBuild /\ calls' = <<>>
    /\ UNCHANGED <<alive, running, video, title, enable_video, ready,
                   cur, result, replaced, ret, entry, stack>>

\* the while condition fails: run_with returns result
RunWithReturnOkOnShutdown ==
    /\ pc = "cond"
    /\ stack = <<>>
    /\ ~LoopCond(running[cur], result)
    /\ ret' = IF ~running[cur] THEN "Ok" ELSE result
    /\ pc' = "done"
    /\ built' = NoBuild /\ calls' = <<>>
    /\ UNCHANGED <<alive, running, video, title, enable_video, ready, depth,
                   cur, result, sd, replaced, log, entry, stack>>
RunWithReturn ==
    /\ pc = "cond"
    /\ stack = <<>>
    /\ ~LoopCond(running[cur], result)
    /\ ret' = result
    /\ pc' = "done"
    /\ built' = NoBuild /\ calls' = <<>>
    /\ UNCHANGED <<alive, running, video, title, enable_video, ready, depth,
                   cur, result, sd, replaced, log, entry, stack>>

\* what IsWindowReady reports after sys::close_video(): the binding only
\* declares CloseWindow; by the interface of the subsystem, is_ready
\* reports false after close
CloseWindow(rdy) == FALSE

\* the body of Drop::drop for Runtime
DropVideoUnguarded ==
    /\ ready' = CloseWindow(ready)
    /\ calls' = <<SysCall("close")>>
DropVideo ==
    IF ready
    THEN /\ ready' = CloseWindow(ready)
         /\ calls' = <<SysCall("is_ready"), SysCall("close")>>
    ELSE /\ UNCHANGED ready
         /\ calls' = <<SysCall("is_ready")>>

\* a Runtime goes out of scope or is dropped explicitly: by its owner, or by
\* a callback that has captured it (the Runtime whose run_with is in progress
\* is borrowed by that run_with and cannot be moved out)
Drop(r) ==
    /\ alive[r]
    /\ InCallback => r # cur
    /\ DropVideo
    /\ alive' = [alive EXCEPT ![r] = FALSE]
    /\ running' = [running EXCEPT ![r] = FALSE]
    /\ video' = [video EXCEPT ![r] = FALSE]
    /\ built' = NoBuild /\ Returns
    /\ UNCHANGED <<title, enable_video, depth>>

\* the callback overwrites the Runtime it was handed, `*rt = Runtime::new()`:
\* the new value is constructed, the old one is dropped in place
Replace ==
    /\ InCallback
    /\ DropVideo
    /\ running' = [running EXCEPT ![cur] = FALSE]
    /\ video' = [video EXCEPT ![cur] = FALSE]
    /\ replaced' = TRUE
    /\ built' = NoBuild
    /\ UNCHANGED <<alive, title, enable_video, depth,
                   pc, log, cur, result, sd, ret, entry, stack>>

\* the callback in progress calls run_with on the Runtime it was handed:
\* the activation it runs in is suspended until the inner run_with returns
\* (the call is recorded in log; at most MaxNest such calls are explored in
\* one outermost run_with)
NestedEnter ==
    /\ InCallback
    /\ Len(stack) < MaxNest
    /\ Count(log, "run_with") < MaxNest
    /\ Len(CbCalls(log)) < MaxTicks
    /\ log' = Append(log, SysCall("run_with"))
    /\ stack' = Append(stack, [pc |-> pc, result |-> result, sd |-> sd,
                                entry |-> entry])
    /\ running' = [running EXCEPT ![cur] = TRUE]
    /\ entry' = running[cur]
    /\ pc' = "cb_first"
    /\ result' = "none"
    /\ sd' = FALSE
    /\ built' = NoBuild /\ calls' = <<>>
    /\ UNCHANGED <<alive, video, title, enable_video, ready, depth,
                   cur, replaced, ret>>

\* the inner run_with returns into the callback that called it
NestedReturn ==
    /\ pc = "cond"
    /\ stack # <<>>
    /\ ~LoopCond(running[cur], result)
    /\ LET top == stack[Len(stack)] IN
          /\ pc' = top.pc
          /\ result' = top.result
          /\ sd' = top.sd
          /\ entry' = top.entry
    /\ stack' = SubSeq(stack, 1, Len(stack) - 1)
    /\ built' = NoBuild /\ calls' = <<>>
    /\ UNCHANGED <<alive, running, video, title, enable_video, ready, depth,
                   cur, replaced, ret, log>>

Next ==
    \/ BuilderNew
    \/ \E t \in Titles : BuilderTitle(t)
    \/ BuilderEnableVideo
    \/ Build
    \/ RuntimeNew
    \/ \E r \in RuntimeIds : RunWithEnter(r)
    \/ \E r \in RuntimeIds : Shutdown(r)
    \/ \E res \in Results : CallbackReturn(res)
    \/ EndFrame
    \/ LoopIterate
    \/ RunWithReturn
    \/ \E r \in RuntimeIds : Drop(r)
    \/ Replace

Spec == Init /\ [][Next]_vars

\* run_with's own steps always go on (single thread, nothing pre-empts it),
\* also those of a run_with called by a callback, and every callback
\* invocation is assumed to return
Fairness ==
    /\ WF_vars(\E res \in Results : CallbackReturn(res))
    /\ WF_vars(EndFrame)
    /\ WF_vars(LoopIterate)
    /\ WF_vars(RunWithReturn)
    /\ WF_vars(NestedReturn)

\* callbacks may also call run_with themselves
NextNested == Next \/ NestedEnter \/ NestedReturn

SpecNested == Init /\ [][NextNested]_vars

LiveSpec == Init /\ [][NextNested]_vars /\ Fairness

TypeOK ==
    /\ alive \in [RuntimeIds -> BOOLEAN]
    /\ running \in [RuntimeIds -> BOOLEAN]
    /\ video \in [RuntimeIds -> BOOLEAN]
    /\ title \in Titles
    /\ enable_video \in BOOLEAN
    /\ ready \in BOOLEAN
    /\ depth \in 0..(1 + MaxNest)
    /\ pc \in {"idle", "done", "cb_first", "cb_loop", "cond", "end"}
    /\ cur \in RuntimeIds \cup {0}
    /\ result \in Results \cup {"none"}
    /\ sd \in BOOLEAN
    /\ replaced \in BOOLEAN
    /\ ret \in Results \cup {"none"}
    /\ built.res \in {"none", "Ok", "InvalidInput", "Other"}
    /\ built.rt \in RuntimeIds \cup {0}
    /\ Len(calls) <= 2
    /\ Len(log) <= 3 * MaxTicks + 4 * MaxNest

\* ------------------------------------------------------------ run_with
\* C1: a callback that always returns success and first calls shutdown() on
\* its N-th invocation is invoked exactly N times (no further invocation is
\* started, and run_with does not return before the N-th unless a callback
\* has overwritten the Runtime), and run_with then returns success.
Thm_C1 ==
    LET cbs == CbCalls(log) IN
    /\ \A N \in 1..Len(cbs) :
          ( /\ cbs[N].sd
            /\ \A i \in 1..(N-1) : ~cbs[i].sd
            /\ \A i \in 1..N : cbs[i].res = "Ok" )
          => /\ Len(cbs) = N
             /\ ~InCallback
             /\ (pc = "done" => ret = "Ok")
    /\ (pc = "done" /\ ~replaced /\ \A i \in 1..Len(cbs) : cbs[i].res = "Ok")
          => /\ Len(cbs) >= 1
             /\ cbs[Len(cbs)].sd

Wit_C1 ==
    LET cbs == CbCalls(log) IN
    /\ pc = "done" /\ ret = "Ok"
    /\ Len(cbs) = 3
    /\ cbs[3].sd /\ ~cbs[1].sd /\ ~cbs[2].sd

\* C2: when the first callback invocation calls shutdown() and returns
\* success, run_with makes no further invocation and no begin_frame or
\* end_frame call, and returns success with running == false.
Thm_C2 ==
    LET cbs == CbCalls(log) IN
    (Len(cbs) >= 1 /\ cbs[1].sd /\ cbs[1].res = "Ok")
    => /\ Len(log) = 1
       /\ pc \in {"cond", "done"}
       /\ depth = 0
       /\ (pc = "done" => ret = "Ok" /\ ~running[cur])

Wit_C2 ==
    LET cbs == CbCalls(log) IN
    /\ pc = "done" /\ ret = "Ok" /\ ~running[cur]
    /\ Len(cbs) = 1 /\ cbs[1].sd

\* C3: when the K-th callback invocation is the first to return a failure,
\* no further invocation is started, the end_frame of that tick runs when
\* K > 1, and run_with returns that very failure value.
Thm_C3 ==
    LET cbs == CbCalls(log) IN
    \A K \in 1..Len(cbs) :
        cbs[K].res # "Ok"
        => /\ Len(cbs) = K
           /\ ~InCallback
           /\ (K > 1 => pc = "end" \/ log[Len(log)].ev = "end")
           /\ (K = 1 => Len(log) = 1)
           /\ (pc = "done" => ret = cbs[K].res)

Wit_C3 ==
    LET cbs == CbCalls(log) IN
    /\ pc = "done" /\ ret = "E2"
    /\ Len(cbs) = 2 /\ cbs[2].res = "E2" /\ ~cbs[1].sd /\ ~cbs[2].sd
    /\ log[Len(log)].ev = "end"

\* C4: when the callback calls shutdown() during tick N, that tick still
\* gets its trailing end_frame if it was opened with begin_frame, and no
\* callback invocation for tick N+1 is started.
Thm_C4 ==
    LET cbs == CbCalls(log) IN
    \A N \in 1..Len(cbs) :
        cbs[N].sd
        => /\ Len(cbs) = N
           /\ ~InCallback
           /\ (N > 1 => pc = "end" \/ log[Len(log)].ev = "end")
           /\ (pc = "done" => Count(log, "begin") = Count(log, "end"))

Wit_C4 ==
    LET cbs == CbCalls(log) IN
    /\ pc = "done"
    /\ Len(cbs) = 2 /\ cbs[2].sd /\ cbs[2].res = "Ok"
    /\ log[Len(log)].ev = "end"

\* C5: within one run_with the first callback invocation has no hook around
\* it, every later one is bracketed begin_frame, callback, end_frame, frames
\* are never nested, and on return #begin_frame = #end_frame = #callback - 1.
HookPattern(i) ==
    IF i = 1 THEN "cb"
    ELSE CASE (i - 2) % 3 = 0 -> "begin"
           [] (i - 2) % 3 = 1 -> "cb"
           [] OTHER -> "end"

Thm_C5 ==
    cur # 0 =>
    /\ \A i \in 1..Len(log) : log[i].ev = HookPattern(i)
    /\ depth = Count(log, "begin") - Count(log, "end")
    /\ depth \in {0, 1}
    /\ (pc = "cb_first" => log = <<>>)
    /\ (pc = "cb_loop" => log[Len(log)].ev = "begin")
    /\ (pc = "end" => log[Len(log)].ev = "cb" /\ depth = 1)
    /\ (pc = "done" => /\ Count(log, "begin") = Count(log, "end")
                       /\ Count(log, "end") = Len(CbCalls(log)) - 1)

Wit_C5 ==
    /\ pc = "done"
    /\ Len(CbCalls(log)) = 3
    /\ Count(log, "begin") = 2 /\ Count(log, "end") = 2

\* C6 (as claimed): running is false for every Runtime on which no run_with
\* is in progress, also after a run_with that ended by a callback failure.
Claim_C6 ==
    \A r \in RuntimeIds :
        (alive[r] /\ (TopLevel \/ cur # r)) => ~running[r]

\* C7 (as claimed): begin_frame and end_frame are called only during the
\* run_with of a Runtime that was built with video enabled.
Claim_C7 ==
    [][ ( \/ Count(log', "begin") > Count(log, "begin")
          \/ Count(log', "end") > Count(log, "end") )
        => video[cur] ]_vars

\* ---------------------------------------------------------------- build
BuildReturned == built'.res # "none"
TitleHasNul   == \E i \in 1..Len(title) : title[i] = 0

\* C8: build() without enable_video succeeds for every title, yields a new
\* Runtime with running == false, calls nothing of the subsystem and leaves
\* the subsystem state unchanged.
Thm_C8 ==
    [][ (BuildReturned /\ ~enable_video)
        => /\ built'.res = "Ok"
           /\ ~alive[built'.rt] /\ alive'[built'.rt]
           /\ ~running'[built'.rt]
           /\ calls' = <<>>
           /\ ready' = ready /\ depth' = depth ]_vars

Wit_C8 ==
    /\ built.res = "Ok" /\ ~enable_video
    /\ TitleHasNul
    /\ alive[built.rt] /\ ~running[built.rt]
    /\ ready

\* C9: build() with video enabled and a nul byte in the title fails with the
\* invalid-input error, creates no Runtime, never calls init and leaves the
\* subsystem state unchanged.
Thm_C9 ==
    [][ (BuildReturned /\ enable_video /\ TitleHasNul)
        => /\ built'.res = "InvalidInput"
           /\ built'.rt = 0
           /\ alive' = alive
           /\ calls' = <<>>
           /\ ready' = ready /\ depth' = depth ]_vars

Wit_C9 ==
    /\ built.res = "InvalidInput" /\ enable_video
    /\ title = <<0>>
    /\ calls = <<>>

\* C10: build() with video enabled and a valid title calls init once (with
\* the nul-terminated title) and then is_ready; not ready gives the
\* initialization error and no Runtime, ready gives a new Runtime with
\* running == false.
Thm_C10 ==
    [][ (BuildReturned /\ enable_video /\ ~TitleHasNul)
        => /\ Len(calls') = 2
           /\ calls'[1].ev = "init" /\ calls'[1].arg = Append(title, 0)
           /\ calls'[2].ev = "is_ready"
           /\ IF ready'
              THEN /\ built'.res = "Ok"
                   /\ ~alive[built'.rt] /\ alive'[built'.rt]
                   /\ ~running'[built'.rt]
              ELSE /\ built'.res = "Other"
                   /\ built'.rt = 0
                   /\ alive' = alive ]_vars

Wit_C10 ==
    /\ built.res = "Other" /\ enable_video
    /\ title = <<65>>
    /\ ~ready
    /\ Count(calls, "init") = 1

\* -------------------------------------------------------------- teardown
\* the step is the destruction of Runtime r
Dropped(r) == alive[r] /\ ~alive'[r]
\* the step is the first overwriting, in the run_with in progress, of the
\* Runtime handed to the callback: the value overwritten is destroyed
Overwritten == InCallback /\ ~replaced /\ replaced'

\* C11 (as claimed): destroying a Runtime that was created without video
\* never calls close on the subsystem, also while a Runtime built with video
\* is still alive.
Claim_C11 ==
    [][ \A r \in RuntimeIds :
          (Dropped(r) /\ ~video[r]) => Count(calls', "close") = 0 ]_vars

\* C12: the destruction of a Runtime (dropped by its owner, dropped inside a
\* callback, or overwritten by the callback it was handed to) queries
\* liveness once and calls close if and only if the subsystem is live at
\* that moment; close is never called on a subsystem that is not live, and
\* the subsystem is not live afterwards.
Thm_C12 ==
    [][ \A r \in RuntimeIds :
          (Dropped(r) \/ (Overwritten /\ r = cur))
          => /\ Len(calls') >= 1 /\ calls'[1].ev = "is_ready"
             /\ Count(calls', "is_ready") = 1
             /\ (ready => calls' = <<SysCall("is_ready"), SysCall("close")>>)
             /\ (~ready => calls' = <<SysCall("is_ready")>>)
             /\ ~ready'
             /\ ~running'[r] /\ ~video'[r] ]_vars

Wit_C12 ==
    /\ calls = <<SysCall("is_ready"), SysCall("close")>>
    /\ ~ready
    /\ pc = "idle"
    /\ \A r \in RuntimeIds : ~alive[r]

\* C14 (as claimed): while a Runtime built with video enabled exists, the
\* subsystem is live; nothing done to another object closes it.
Claim_C14 ==
    \A r \in RuntimeIds : (alive[r] /\ video[r]) => ready

\* C15: when run_with returns, running is false or the last callback result
\* is a failure, and the value returned is the result of the last callback
\* invocation, also when that invocation both called shutdown() and failed.
Thm_C15 ==
    LET cbs == CbCalls(log) IN
    pc = "done"
    => /\ Len(cbs) >= 1
       /\ (~running[cur] \/ cbs[Len(cbs)].res \in Errors)
       /\ ret = cbs[Len(cbs)].res
       /\ ret = result

Wit_C15 ==
    LET cbs == CbCalls(log) IN
    /\ pc = "done"
    /\ Len(cbs) = 2
    /\ cbs[2].sd /\ cbs[2].res = "E1"
    /\ ret = "E1" /\ ~running[cur]

\* C17 (as claimed): init is never invoked while the subsystem is already
\* live, whatever the sequence of build() calls.
Claim_C17 ==
    [][ (BuildReturned /\ Count(calls', "init") > 0) => ~ready ]_vars

\* ------------------------------------------------------------ termination
\* some callback invocation of the run_with in progress has called
\* shutdown() or has returned a failure
ShutdownOrFailure ==
    LET cbs == CbCalls(log) IN
    /\ ~TopLevel
    /\ \/ InCallback /\ sd
       \/ \E i \in 1..Len(cbs) : cbs[i].sd \/ cbs[i].res \in Errors

\* C16 (as claimed): provided callbacks return, run_with returns if and only
\* if some invocation called shutdown() or failed: it returns right after
\* the first such tick, and as long as the callback succeeds without
\* shutdown the loop issues the next tick instead of returning.
Claim_C16 ==
    LET cbs == CbCalls(log) IN
    /\ [](pc = "done"
          => /\ Len(cbs) >= 1
             /\ cbs[Len(cbs)].sd \/ cbs[Len(cbs)].res \in Errors
             /\ \A i \in 1..(Len(cbs) - 1) :
                   ~cbs[i].sd /\ cbs[i].res = "Ok")
    /\ (ShutdownOrFailure ~> pc = "done")
    /\ ((pc = "cond" /\ ~ShutdownOrFailure /\ Len(cbs) < MaxTicks)
           ~> pc = "cb_loop")

\* some callback invocation of the run_with in progress has called
\* shutdown(), has overwritten the Runtime it was handed, or has returned a
\* failure
Triggered == ~TopLevel /\ (ShutdownOrFailure \/ replaced)

\* -------------------------------------------------------------- re-entry
\* C13: the course of a run_with (hook sequence, number of invocations,
\* value returned) is fixed by what the callback does and is the same
\* whatever running was when run_with was entered: the loop goes on after
\* every invocation that neither failed nor cleared running (by shutdown()
\* or by overwriting the Runtime), and returns the result of the first one
\* that did.
Thm_C13 ==
    LET cbs == CbCalls(log) IN
    cur # 0
    => /\ \A i \in 1..Len(log) : log[i].ev = HookPattern(i)
       /\ \A i \in 1..(Len(cbs) - 1) : ~cbs[i].sd /\ cbs[i].res = "Ok"
       /\ (pc \in {"cb_first", "cb_loop"} => running[cur] \/ sd \/ replaced)
       /\ (pc \in {"cond", "end"} /\ ~Triggered => running[cur])
       /\ (pc = "done"
           => /\ Len(cbs) >= 1
              /\ cbs[Len(cbs)].sd \/ cbs[Len(cbs)].res \in Errors \/ replaced
              /\ ret = cbs[Len(cbs)].res)

\* a run_with entered with running still true (left by a failure exit of
\* an earlier run_with on that Runtime), in its first callback invocation
Wit_C13 ==
    /\ pc = "cb_first"
    /\ entry
    /\ running[cur] /\ ~sd /\ ~replaced
    /\ log = <<>> /\ depth = 0

\* C18 (as claimed, its part on frames): also when a callback calls
\* run_with on the Runtime it was handed, begin_frame is never issued while
\* a frame is open.
Claim_C18 == depth <= 1
====
